---- MODULE Spec2Model ----
(***************************************************************************)
(* Model of the PDF text-layout engine of teguhahmad/layouter:             *)
(* src/project/src/utils/pdfMarkdownParser.ts (parseInlineMarkdown,        *)
(* splitTextToLines, renderJustifiedLine, parsePDFMarkdown) and of the     *)
(* document build that calls it, generatePdf of                            *)
(* src/project/src/components/Preview.tsx.                                 *)
(*                                                                         *)
(* Strings are sequences of one-character strings.  Horizontal lengths are *)
(* integers (character width units times the font size); x positions are   *)
(* exact rationals [n, d] because centring and justification divide.       *)
(* Vertical lengths are integers in units of 1e-6 mm, so that              *)
(* fontSize * 0.352778 * lineHeight is exact.                              *)
(***************************************************************************)
EXTENDS Integers, Sequences, FiniteSets, TLC

VARIABLES
    metric,     \* the rendering surface's glyph metrics (the measure function)
    doc,        \* the jsPDF document: active font style, font size, pages
    options,    \* PDFMarkdownOptions of the call
    call,       \* the call's other arguments: text, x, y and the page height
    pc,         \* position in the running function
    textLines,  \* parsePDFMarkdown: text.split('\n') after normalisation
    i,          \* parsePDFMarkdown: index of the source line (1-based)
    currentY,   \* parsePDFMarkdown: the vertical cursor
    block,      \* parsePDFMarkdown: the block being drawn (lines, lineIndex, ...)
    draws,      \* every doc.text call so far, in order
    divisions,  \* every gap count extraSpacePerGap was divided by
    segments,   \* result of parseInlineMarkdown for the line at hand
    wrap,       \* splitTextToLines: its local variables
    build       \* generatePdf of Preview.tsx: one document build

vars == <<metric, doc, options, call, pc, textLines, i, currentY, block,
          draws, divisions, segments, wrap, build>>

----------------------------------------------------------------------------
(* Bounds of the model *)

\* longest source string enumerated exhaustively for the tokenizer/wrapper
MaxLen == 4
\* most source lines joined into one text for parsePDFMarkdown
MaxLines == 2
\* most chapters of the book handed to generatePdf
MaxChapters == 2

----------------------------------------------------------------------------
(* Strings *)

Sp == " "
NL == "\n"
MarkerChars == {"*", "_"}

\* the characters of the exhaustively enumerated inline strings
InlineAlphabet == {"a", "W", Sp, "*", "_"}

RECURSIVE StringsOfLen(_)
StringsOfLen(n) ==
    IF n = 0 THEN {<<>>}
    ELSE {Append(s, c) : s \in StringsOfLen(n - 1), c \in InlineAlphabet}

InlineStrings == UNION {StringsOfLen(n) : n \in 0..MaxLen}

\* Inline strings beyond MaxLen that the specification names
BoldItalicExample ==
    <<"*", "*", "B", "o", "l", "d", "*", "*", " ", "a", "n", "d", " ", "*", "i", "t", "a", "l", "i", "c", "*", " ", "t", "e", "x", "t">>
RunsExample == <<"a", "*", "*", "b", "*", "*", "c">>
\* a link: [a](W)
LinkText == <<"a">>
LinkUrl == <<"W">>
LinkExample == <<"[">> \o LinkText \o <<"]", "(">> \o LinkUrl \o <<")">>
\* three words, the second too wide for a line of any of the wrap cases
ThreeWordsExample == <<"a", " ", "W", "W", " ", "a", " ", "a">>
\* a word that is cut where the line is 120 wide, and a word after it
FragmentExample == <<"a", "a", "a", "a", " ", "a">>
\* an underscore inside an emphasis opened and closed by asterisks: *a_b*
MixedMarkersExample == <<"*", "a", "_", "b", "*">>
ExampleStrings ==
    {BoldItalicExample, RunsExample, LinkExample, ThreeWordsExample, FragmentExample,
     MixedMarkersExample}
\* a single word of 25 characters
LongWord == [k \in 1..25 |-> "a"]

RECURSIVE Concat(_)
Concat(seqs) == IF seqs = <<>> THEN <<>> ELSE Head(seqs) \o Concat(Tail(seqs))

RECURSIVE SumSeq(_)
SumSeq(s) == IF s = <<>> THEN 0 ELSE Head(s) + SumSeq(Tail(s))

\* index of the first occurrence of character c in s, 0 when there is none
RECURSIVE IndexOf(_, _, _)
IndexOf(s, c, from) ==
    IF from > Len(s) THEN 0
    ELSE IF s[from] = c THEN from
    ELSE IndexOf(s, c, from + 1)

\* String.prototype.split(sep) for a one-character separator
RECURSIVE Split(_, _)
Split(s, sep) ==
    LET k == IndexOf(s, sep, 1)
    IN  IF k = 0 THEN <<s>>
        ELSE <<SubSeq(s, 1, k - 1)>> \o Split(SubSeq(s, k + 1, Len(s)), sep)

IsSpace(c) == c \in {Sp, NL}

\* String.prototype.trim()
RECURSIVE TrimLeft(_)
TrimLeft(s) == IF s # <<>> /\ IsSpace(Head(s)) THEN TrimLeft(Tail(s)) ELSE s

RECURSIVE TrimRight(_)
TrimRight(s) ==
    IF s # <<>> /\ IsSpace(s[Len(s)]) THEN TrimRight(SubSeq(s, 1, Len(s) - 1)) ELSE s

Trim(s) == TrimRight(TrimLeft(s))

----------------------------------------------------------------------------
(* TextStyle, TextSegment *)

\* heading: null is 0; listType: null is "null"; indentation in quarters of an em
DefaultStyle ==
    [bold |-> FALSE, italic |-> FALSE, heading |-> 0, list |-> FALSE,
     listType |-> "null", listLevel |-> 0, indentation |-> 0]

Segment(t, st) == [text |-> t, style |-> st]

----------------------------------------------------------------------------
(* parseInlineMarkdown *)

\* the while loop of parseInlineMarkdown, from index k on, and the final flush
RECURSIVE parseInlineLoop(_, _, _, _, _)
parseInlineLoop(text, k, currentText, currentStyle, segs) ==
    IF k > Len(text)
    THEN IF currentText # <<>>
         THEN Append(segs, Segment(currentText, currentStyle))
         ELSE segs
    ELSE IF text[k] \in MarkerChars
    THEN LET marker   == text[k]
             isDouble == k + 1 <= Len(text) /\ text[k + 1] = marker
             flushed  == IF currentText # <<>>
                         THEN Append(segs, Segment(currentText, currentStyle))
                         ELSE segs
         IN  IF isDouble
             THEN parseInlineLoop(text, k + 2, <<>>,
                      [currentStyle EXCEPT !.bold = ~@], flushed)
             ELSE parseInlineLoop(text, k + 1, <<>>,
                      [currentStyle EXCEPT !.italic = ~@], flushed)
    ELSE parseInlineLoop(text, k + 1, Append(currentText, text[k]),
             currentStyle, segs)

\* mutant: the double marker toggles italic and the single marker bold
parseInlineSwapped(text) ==
    LET segs == parseInlineLoop(text, 1, <<>>, DefaultStyle, <<>>)
    IN  [k \in 1..Len(segs) |->
            Segment(segs[k].text, [segs[k].style EXCEPT !.bold = segs[k].style.italic,
                                                        !.italic = segs[k].style.bold])]

\* mutant: the text accumulated at the end of the input is not flushed
parseInlineNoFlush(text) ==
    LET segs == parseInlineLoop(text, 1, <<>>, DefaultStyle, <<>>)
    IN  IF text # <<>> /\ text[Len(text)] \notin MarkerChars
        THEN SubSeq(segs, 1, Len(segs) - 1)
        ELSE segs

parseInlineMarkdown(text) == parseInlineLoop(text, 1, <<>>, DefaultStyle, <<>>)

----------------------------------------------------------------------------
(* The rendering surface: font state and text measurement *)

FontStyles == {"normal", "bold", "italic", "bolditalic"}

\* width of a character in the normal style, per unit of font size
BaseWidth(c) == IF c = "W" THEN 3 ELSE 1

\* Measure functions: what a non-normal style adds to a glyph and to a space.
\*   mono:        every style has the same widths
\*   boldGlyph:   bold glyphs are wider, the space is the same in every style
\*   styledSpace: the space is wider in every style but normal
NoExtra == [s \in FontStyles |-> 0]
Metrics ==
    { [name |-> "mono", glyph |-> NoExtra, space |-> NoExtra],
      [name |-> "boldGlyph",
       glyph |-> [s \in FontStyles |-> IF s \in {"bold", "bolditalic"} THEN 1 ELSE 0],
       space |-> NoExtra],
      [name |-> "styledSpace", glyph |-> NoExtra,
       space |-> [s \in FontStyles |-> IF s = "normal" THEN 0 ELSE 1]] }

CharWidth(m, c, fontStyle) ==
    BaseWidth(c) + (IF c = Sp THEN m.space[fontStyle] ELSE m.glyph[fontStyle])

RECURSIVE UnitWidth(_, _, _)
UnitWidth(m, t, fontStyle) ==
    IF t = <<>> THEN 0
    ELSE CharWidth(m, Head(t), fontStyle) + UnitWidth(m, Tail(t), fontStyle)

\* doc.getTextWidth(t): measured in the active font style and size
getTextWidth(d, t) == d.fontSize * UnitWidth(metric, t, d.fontStyle)

\* the headingSizes table of applyStyle, in percent of the base size
headingSizes == <<200, 150, 117, 100, 83, 67>>

applyStyle(d, style, baseFontSize) ==
    LET fontStyle == IF style.bold /\ style.italic THEN "bolditalic"
                     ELSE IF style.bold THEN "bold"
                     ELSE IF style.italic THEN "italic"
                     ELSE "normal"
    IN  [d EXCEPT !.fontStyle = fontStyle,
                  !.fontSize  = IF style.heading # 0
                                THEN (baseFontSize * headingSizes[style.heading]) \div 100
                                ELSE baseFontSize]

----------------------------------------------------------------------------
(* splitTextToLines *)

\* The local state of one splitTextToLines call.  queue holds the words
\* not yet visited by the two nested forEach loops, each with its segment's
\* style; Len(lines) is currentLine + 1 of the source (its index is 0-based).
WrapStart(d, segs, maxWidth, baseIndentation) ==
    LET indentationWidth == (baseIndentation * d.fontSize) \div 4
    IN  [lines            |-> << <<>> >>,
         currentLineWidth |-> 0,
         currentLineWords |-> <<>>,
         availableWidth   |-> maxWidth - indentationWidth,
         spaceWidth       |-> getTextWidth(d, <<Sp>>),
         baseIndentation  |-> baseIndentation,
         queue |-> Concat([k \in 1..Len(segs) |->
                      LET words == Split(segs[k].text, Sp)
                      IN  [j \in 1..Len(words) |->
                              [word |-> words[j], style |-> segs[k].style]]]),
         done   |-> FALSE,
         result |-> <<>>]

commitCurrentLine(w) ==
    IF Len(w.currentLineWords) > 0
    THEN [w EXCEPT !.lines = Append([@ EXCEPT ![Len(@)] = w.currentLineWords], <<>>),
                   !.currentLineWords = <<>>,
                   !.currentLineWidth = 0]
    ELSE w

\* mutant: the word is put in front of the words of the line
addWordToFront(w, wordSegment, width) ==
    IF Len(w.currentLineWords) > 0
    THEN [w EXCEPT !.currentLineWords =
                       <<wordSegment, Segment(<<Sp>>, wordSegment.style)>> \o @,
                   !.currentLineWidth = @ + w.spaceWidth + width]
    ELSE [w EXCEPT !.currentLineWords = Append(@, wordSegment),
                   !.currentLineWidth = @ + width]

\* mutant: the width of a word is added to the line's width twice
addWordToLineWide(w, wordSegment, width) ==
    IF Len(w.currentLineWords) > 0
    THEN [w EXCEPT !.currentLineWords =
                       Append(Append(@, Segment(<<Sp>>, wordSegment.style)), wordSegment),
                   !.currentLineWidth = @ + w.spaceWidth + 2 * width]
    ELSE [w EXCEPT !.currentLineWords = Append(@, wordSegment),
                   !.currentLineWidth = @ + 2 * width]

addWordToLine(w, wordSegment, width) ==
    IF Len(w.currentLineWords) > 0
    THEN [w EXCEPT !.currentLineWords =
                       Append(Append(@, Segment(<<Sp>>, wordSegment.style)), wordSegment),
                   !.currentLineWidth = @ + w.spaceWidth + width]
    ELSE [w EXCEPT !.currentLineWords = Append(@, wordSegment),
                   !.currentLineWidth = @ + width]

\* the for loop of splitWordIfNeeded from character k on, and the final push
RECURSIVE splitWordLoop(_, _, _, _, _, _)
splitWordLoop(d, chars, k, currentPart, availableWidth, result) ==
    IF k > Len(chars)
    THEN IF currentPart # <<>> THEN Append(result, currentPart) ELSE result
    ELSE LET testPart  == Append(currentPart, chars[k])
             testWidth == getTextWidth(d, testPart)
         IN  IF testWidth > availableWidth
             THEN IF currentPart # <<>>
                  THEN splitWordLoop(d, chars, k + 1, <<chars[k]>>, availableWidth,
                           Append(result, currentPart))
                  ELSE splitWordLoop(d, chars, k + 1, <<chars[k]>>, availableWidth, result)
             ELSE splitWordLoop(d, chars, k + 1, testPart, availableWidth, result)

\* mutant: the part accumulated at the end of the word is not pushed
splitWordNoFinalPush(d, word, style, availableWidth) ==
    LET parts == splitWordLoop(applyStyle(d, style, d.fontSize), word, 1, <<>>,
                               availableWidth, <<>>)
    IN  SubSeq(parts, 1, Len(parts) - 1)

\* the fragments of word, as texts; every fragment carries the word's style
splitWordIfNeeded(d, word, style, availableWidth) ==
    splitWordLoop(applyStyle(d, style, d.fontSize), word, 1, <<>>, availableWidth, <<>>)

\* mutant: the line is not committed between two parts
RECURSIVE addPartsSameLine(_, _, _, _, _)
addPartsSameLine(w, d, parts, style, k) ==
    IF k > Len(parts) THEN w
    ELSE LET partWidth == getTextWidth(applyStyle(d, style, d.fontSize), parts[k])
         IN  addPartsSameLine(addWordToLine(w, Segment(parts[k], style), partWidth),
                              d, parts, style, k + 1)

\* parts.forEach((part, index) => ...) of splitTextToLines, from part k on
RECURSIVE addParts(_, _, _, _, _)
addParts(w, d, parts, style, k) ==
    IF k > Len(parts) THEN w
    ELSE LET w1 == IF k > 1 THEN commitCurrentLine(w) ELSE w
             partWidth == getTextWidth(applyStyle(d, style, d.fontSize), parts[k])
         IN  addParts(addWordToLine(w1, Segment(parts[k], style), partWidth),
                      d, parts, style, k + 1)

\* One iteration of words.forEach: the word at the head of the queue.
\* Returns the new local state and the document (its font style changes).
wrapWord(w, d) ==
    LET word  == Head(w.queue).word
        rest  == [w EXCEPT !.queue = Tail(@)]
        style == [Head(w.queue).style EXCEPT !.indentation = w.baseIndentation]
        wordSegment == Segment(word, style)
        d1 == applyStyle(d, style, d.fontSize)
        wordWidth == getTextWidth(d1, word)
        gap == IF Len(w.currentLineWords) > 0 THEN w.spaceWidth ELSE 0
    IN  IF word = <<>> THEN [w |-> rest, d |-> d]
        ELSE IF w.currentLineWidth + gap + wordWidth <= w.availableWidth
        THEN [w |-> addWordToLine(rest, wordSegment, wordWidth), d |-> d1]
        ELSE IF Len(w.currentLineWords) > 0
        THEN LET w1 == commitCurrentLine(rest)
             IN  IF wordWidth <= w.availableWidth
                 THEN [w |-> addWordToLine(w1, wordSegment, wordWidth), d |-> d1]
                 ELSE [w |-> addParts(w1, d1,
                                 splitWordIfNeeded(d1, word, style, w.availableWidth),
                                 style, 1),
                       d |-> d1]
        ELSE [w |-> addParts(rest, d1,
                        splitWordIfNeeded(d1, word, style, w.availableWidth), style, 1),
              d |-> d1]

SelectNonEmpty(ls) == SelectSeq(ls, LAMBDA l : Len(l) > 0)

\* mutant: the empty lines are not dropped
wrapFinishUnfiltered(w) ==
    LET ls == IF Len(w.currentLineWords) > 0
              THEN [w.lines EXCEPT ![Len(w.lines)] = w.currentLineWords]
              ELSE w.lines
    IN  [w EXCEPT !.lines = ls, !.done = TRUE, !.result = ls]

\* the code after the loops: commit the remaining words, drop the empty lines
wrapFinish(w) ==
    LET ls == IF Len(w.currentLineWords) > 0
              THEN [w.lines EXCEPT ![Len(w.lines)] = w.currentLineWords]
              ELSE w.lines
    IN  [w EXCEPT !.lines = ls, !.done = TRUE, !.result = SelectNonEmpty(ls)]

RECURSIVE wrapAll(_, _)
wrapAll(w, d) ==
    IF w.queue = <<>> THEN [w |-> wrapFinish(w), d |-> d]
    ELSE LET r == wrapWord(w, d) IN wrapAll(r.w, r.d)

\* splitTextToLines(doc, segments, maxWidth, baseIndentation, font):
\* .w.result is the returned lines, .d the document afterwards
splitTextToLines(d, segs, maxWidth, baseIndentation) ==
    wrapAll(WrapStart(d, segs, maxWidth, baseIndentation), d)

----------------------------------------------------------------------------
(* Specification SpecWrap: parseInlineMarkdown, then splitTextToLines word  *)
(* by word, on every inline string up to MaxLen                             *)

\* options.fontSize of every call of the model (a multiple of 4 and of 10, so
\* that indentation and heading sizes are whole numbers)
FontSizes == {40}

NoBlock == [kind |-> "none", src |-> 0, lines |-> <<>>, lineIndex |-> 1]
NoWrap  == [done |-> FALSE, queue |-> <<>>, result |-> <<>>]
NoOptions == [align |-> "left"]
\* no document build is running
NoBuild == [pc |-> "none"]

\* (maxWidth, baseIndentation) of the splitTextToLines calls: available
\* widths of 100, 120 and 190, while "a" is 40 wide and "W" 120
WrapCases ==
    { [maxWidth |-> 100, baseIndentation |-> 0],
      [maxWidth |-> 120, baseIndentation |-> 0],
      [maxWidth |-> 200, baseIndentation |-> 1] }

\* The font style the document is left in when splitTextToLines is entered:
\* parsePDFMarkdown enters it in whatever style the previous draw selected.
EntryStyles == {"normal", "bold"}

\* The call of the scenario "a single word of measured width 500 with
\* effectiveWidth=100 and per-character width 20": 25 characters at font
\* size 20, where a character is 20 wide
LongWordCalls ==
    { [text |-> LongWord, fontSize |-> 20, maxWidth |-> 100, baseIndentation |-> 0] }

\* Segment lists handed to splitTextToLines as they are, without the
\* tokenizer: no segment, segments of empty text, segments of spaces only,
\* and such segments between words
SegmentLists ==
    LET S(t) == Segment(t, DefaultStyle)
    IN  { <<>>,
          << S(<<>>) >>,
          << S(<<Sp>>) >>,
          << S(<<Sp, Sp>>), S(<<>>) >>,
          << S(<<>>), S(<<"a">>) >>,
          << S(<<"a">>), S(<<>>), S(<<"a", "a", "a">>) >>,
          << S(<<Sp>>), S(<<"a", Sp, Sp, "a">>), S(<<Sp>>) >> }

SegmentCalls ==
    { [segments |-> sl, fontSize |-> fs, maxWidth |-> c.maxWidth,
       baseIndentation |-> c.baseIndentation] :
          sl \in SegmentLists, fs \in FontSizes, c \in WrapCases }

WrapCalls ==
    { [text |-> t, fontSize |-> fs, maxWidth |-> c.maxWidth,
       baseIndentation |-> c.baseIndentation] :
          t \in InlineStrings \cup ExampleStrings, fs \in FontSizes, c \in WrapCases }
    \cup LongWordCalls

InitWrap ==
    /\ metric \in Metrics
    /\ \/ /\ \E c \in WrapCalls :
                 /\ \E st \in EntryStyles :
                        doc = [fontStyle |-> st, fontSize |-> c.fontSize, pages |-> 1]
                 /\ call = [fn |-> "splitTextToLines", text |-> c.text,
                            maxWidth |-> c.maxWidth,
                            baseIndentation |-> c.baseIndentation]
          /\ pc = "tokenize"
          /\ segments = <<>>
       \/ /\ \E c \in SegmentCalls :
                 /\ doc = [fontStyle |-> "normal", fontSize |-> c.fontSize, pages |-> 1]
                 /\ call = [fn |-> "splitTextToLines(segments)", text |-> <<>>,
                            maxWidth |-> c.maxWidth,
                            baseIndentation |-> c.baseIndentation]
                 /\ segments = c.segments
          /\ pc = "split"
    /\ options = NoOptions
    /\ textLines = <<>>
    /\ i = 0
    /\ currentY = 0
    /\ block = NoBlock
    /\ draws = <<>>
    /\ divisions = <<>>
    /\ wrap = NoWrap
    /\ build = NoBuild

layoutUnchanged == UNCHANGED <<metric, options, call, textLines, i, currentY,
                               block, draws, divisions, build>>

Tokenize ==
    /\ pc = "tokenize"
    /\ segments' = parseInlineMarkdown(call.text)
    /\ pc' = "split"
    /\ UNCHANGED <<doc, wrap>>
    /\ layoutUnchanged

SplitBegin ==
    /\ pc = "split"
    /\ wrap' = WrapStart(doc, segments, call.maxWidth, call.baseIndentation)
    /\ pc' = "words"
    /\ UNCHANGED <<doc, segments>>
    /\ layoutUnchanged

SplitWord ==
    /\ pc = "words"
    /\ wrap.queue # <<>>
    /\ LET r == wrapWord(wrap, doc)
       IN  wrap' = r.w /\ doc' = r.d
    /\ UNCHANGED <<pc, segments>>
    /\ layoutUnchanged

SplitEnd ==
    /\ pc = "words"
    /\ wrap.queue = <<>>
    /\ wrap' = wrapFinish(wrap)
    /\ pc' = "returned"
    /\ UNCHANGED <<doc, segments>>
    /\ layoutUnchanged

NextWrap == Tokenize \/ SplitBegin \/ SplitWord \/ SplitEnd

SpecWrap == InitWrap /\ [][NextWrap]_vars

----------------------------------------------------------------------------
(* Exact x positions: rationals [n, d] in lowest terms, d > 0 *)

RECURSIVE GCD(_, _)
GCD(a, b) == IF b = 0 THEN a ELSE GCD(b, a % b)

Abs(a) == IF a < 0 THEN -a ELSE a

Rat(n, d) ==
    LET g == GCD(Abs(n), d)
    IN  [n |-> n \div g, d |-> d \div g]

RInt(k) == [n |-> k, d |-> 1]
RAdd(a, b) == Rat(a.n * b.d + b.n * a.d, a.d * b.d)
RLeq(a, b) == a.n * b.d <= b.n * a.d

----------------------------------------------------------------------------
(* Line rendering *)

\* one doc.text call: the arguments, the font state it is issued in, and the
\* source line and wrapped line it belongs to (line 0 is a list marker)
Draw(t, x, y, d, src, line) ==
    [text |-> t, x |-> x, y |-> y, fontStyle |-> d.fontStyle,
     fontSize |-> d.fontSize, src |-> src, line |-> line]

\* segments.forEach of the branch of renderJustifiedLine that does not justify:
\* each segment is drawn and the pen advances by the width of the text plus,
\* for a segment that is not a single space, one more space
RECURSIVE renderPlainLoop(_, _, _, _, _, _, _)
renderPlainLoop(d, segs, k, currentX, y, src, line) ==
    IF k > Len(segs) THEN [draws |-> <<>>, d |-> d, x |-> currentX]
    ELSE LET d1 == applyStyle(d, segs[k].style, d.fontSize)
             t  == segs[k].text
             adv == getTextWidth(d1, IF t = <<Sp>> THEN t ELSE Append(t, Sp))
             r  == renderPlainLoop(d1, segs, k + 1, RAdd(currentX, RInt(adv)), y, src, line)
         IN  [r EXCEPT !.draws = <<Draw(t, currentX, y, d1, src, line)>> \o @]

\* the first segments.forEach of the justifying branch: total width, spaces
RECURSIVE measureLoop(_, _, _)
measureLoop(d, segs, k) ==
    IF k > Len(segs) THEN [totalTextWidth |-> 0, numberOfSpaces |-> 0, d |-> d]
    ELSE LET d1 == applyStyle(d, segs[k].style, d.fontSize)
             r  == measureLoop(d1, segs, k + 1)
         IN  [r EXCEPT !.totalTextWidth = @ + getTextWidth(d1, segs[k].text),
                       !.numberOfSpaces = @ + (IF segs[k].text = <<Sp>> THEN 1 ELSE 0)]

\* the second segments.forEach of the justifying branch
RECURSIVE renderSpreadLoop(_, _, _, _, _, _, _, _)
renderSpreadLoop(d, segs, k, currentX, y, extraSpacePerGap, src, line) ==
    IF k > Len(segs) THEN [draws |-> <<>>, d |-> d, x |-> currentX]
    ELSE LET d1 == applyStyle(d, segs[k].style, d.fontSize)
             t  == segs[k].text
             adv == IF t = <<Sp>> /\ k < Len(segs)
                    THEN RAdd(RInt(getTextWidth(d1, <<Sp>>)), extraSpacePerGap)
                    ELSE RInt(getTextWidth(d1, t))
             r  == renderSpreadLoop(d1, segs, k + 1, RAdd(currentX, adv), y,
                                    extraSpacePerGap, src, line)
         IN  [r EXCEPT !.draws = <<Draw(t, currentX, y, d1, src, line)>> \o @]

\* mutant: neither the single-segment guard nor the zero-gap guard
renderJustifiedUnguarded(d, segs, x, y, maxWidth, isLastLine, src, line) ==
    IF isLastLine
    THEN LET r == renderPlainLoop(d, segs, 1, RInt(x), y, src, line)
         IN  [draws |-> r.draws, d |-> r.d, x |-> r.x, divs |-> <<>>]
    ELSE LET m == measureLoop(d, segs, 1)
             extraSpacePerGap == IF m.numberOfSpaces > 0
                                 THEN Rat(maxWidth - m.totalTextWidth, m.numberOfSpaces)
                                 ELSE RInt(0)
             r == renderSpreadLoop(m.d, segs, 1, RInt(x), y, extraSpacePerGap, src, line)
         IN  [draws |-> r.draws, d |-> r.d, x |-> r.x, divs |-> <<m.numberOfSpaces>>]

\* renderJustifiedLine(doc, segments, x, y, maxWidth, isLastLine): the draw
\* calls, the document afterwards, the final pen position, and the divisor of
\* each division that computes extraSpacePerGap
renderJustifiedLine(d, segs, x, y, maxWidth, isLastLine, src, line) ==
    IF isLastLine \/ Len(segs) <= 1
    THEN LET r == renderPlainLoop(d, segs, 1, RInt(x), y, src, line)
         IN  [draws |-> r.draws, d |-> r.d, x |-> r.x, divs |-> <<>>]
    ELSE LET m == measureLoop(d, segs, 1)
             remainingSpace == maxWidth - m.totalTextWidth
             extraSpacePerGap == IF m.numberOfSpaces > 0
                                 THEN Rat(remainingSpace, m.numberOfSpaces)
                                 ELSE RInt(0)
             r == renderSpreadLoop(m.d, segs, 1, RInt(x), y, extraSpacePerGap, src, line)
         IN  [draws |-> r.draws, d |-> r.d, x |-> r.x,
              divs |-> IF m.numberOfSpaces > 0 THEN <<m.numberOfSpaces>> ELSE <<>>]

\* lineSegments.forEach(... totalWidth += ...) of parsePDFMarkdown
RECURSIVE totalWidthLoop(_, _, _, _)
totalWidthLoop(d, segs, k, fontSize) ==
    IF k > Len(segs) THEN [totalWidth |-> 0, d |-> d]
    ELSE LET d1 == applyStyle(d, segs[k].style, fontSize)
             r  == totalWidthLoop(d1, segs, k + 1, fontSize)
         IN  [r EXCEPT !.totalWidth = @ + getTextWidth(d1, segs[k].text)]

\* lineSegments.forEach(... doc.text ...) of parsePDFMarkdown
RECURSIVE drawLoop(_, _, _, _, _, _, _, _)
drawLoop(d, segs, k, xOffset, y, fontSize, src, line) ==
    IF k > Len(segs) THEN [draws |-> <<>>, d |-> d, x |-> xOffset]
    ELSE LET d1 == applyStyle(d, segs[k].style, fontSize)
             t  == segs[k].text
             r  == drawLoop(d1, segs, k + 1, RAdd(xOffset, RInt(getTextWidth(d1, t))),
                            y, fontSize, src, line)
         IN  [r EXCEPT !.draws = <<Draw(t, xOffset, y, d1, src, line)>> \o @]

ListKinds == {"ordered", "unordered"}

\* the bullet character (U+2022) drawn before an unordered item
Bullet == "bullet"

\* The body of lines.forEach((lineSegments, lineIndex) => ...) up to the
\* drawing, for one wrapped line of a block of the given kind: the four
\* copies in parsePDFMarkdown differ only in the list offsets.
renderBlockLine(d, opts, x, y, kind, baseIndentation, segs, isLastLine, src, line) ==
    LET indent == (baseIndentation * opts.fontSize) \div 4
        inset  == IF kind \in ListKinds THEN indent + 5 ELSE indent
    IN  IF opts.align = "justify"
        THEN renderJustifiedLine(d, segs, x + inset, y, opts.maxWidth - inset,
                                 isLastLine, src, line)
        ELSE LET tw == totalWidthLoop(d, segs, 1, opts.fontSize)
                 xOffset ==
                     IF opts.align = "center"
                     THEN IF kind \in ListKinds
                          THEN RAdd(RInt(x + indent + 5),
                                    Rat(opts.maxWidth - indent - 5 - tw.totalWidth, 2))
                          ELSE RAdd(RInt(x), Rat(opts.maxWidth - tw.totalWidth, 2))
                     ELSE IF opts.align = "right"
                     THEN RInt(x + opts.maxWidth - tw.totalWidth)
                     ELSE RInt(x + inset)
                 r == drawLoop(tw.d, segs, 1, xOffset, y, opts.fontSize, src, line)
             IN  [draws |-> r.draws, d |-> r.d, x |-> r.x, divs |-> <<>>]

----------------------------------------------------------------------------
(* parsePDFMarkdown: text normalisation and block classification *)

\* text.replace(/---/g, '\n')
RECURSIVE ReplaceRules(_)
ReplaceRules(t) ==
    IF Len(t) >= 3 /\ t[1] = "-" /\ t[2] = "-" /\ t[3] = "-"
    THEN <<NL>> \o ReplaceRules(SubSeq(t, 4, Len(t)))
    ELSE IF t = <<>> THEN <<>>
    ELSE <<Head(t)>> \o ReplaceRules(Tail(t))

\* text.replace(/\n{2,}/g, '\n')
RECURSIVE CollapseNewlines(_)
CollapseNewlines(t) ==
    IF t = <<>> THEN <<>>
    ELSE IF Len(t) >= 2 /\ t[1] = NL /\ t[2] = NL THEN CollapseNewlines(Tail(t))
    ELSE <<Head(t)>> \o CollapseNewlines(Tail(t))

Digits == {"0", "1", "2", "3", "4", "5", "6", "7", "8", "9"}

\* length of the longest prefix of t from position k whose characters are in S
RECURSIVE RunLen(_, _, _)
RunLen(t, k, S) ==
    IF k <= Len(t) /\ t[k] \in S THEN 1 + RunLen(t, k + 1, S) ELSE 0

Rest(t, k) == SubSeq(t, k, Len(t))

\* /^(\s*(?:[-*]|\d+\.)\s+)/ of calculateIndentation, on the untrimmed line
ListPrefixMatch(t) ==
    LET ws  == RunLen(t, 1, {Sp})
        k   == ws + 1
        dg  == RunLen(t, k, Digits)
        aft == IF k <= Len(t) /\ t[k] \in {"-", "*"} THEN k + 1
               ELSE IF dg > 0 /\ k + dg <= Len(t) /\ t[k + dg] = "." THEN k + dg + 1
               ELSE 0
    IN  aft # 0 /\ RunLen(t, aft, {Sp}) > 0

\* calculateIndentation(text), in quarters of an em
calculateIndentation(t) ==
    LET baseIndent == RunLen(t, 1, {Sp}) \div 2
    IN  baseIndent + (IF ListPrefixMatch(t) THEN 1
                      ELSE IF baseIndent > 0 THEN 3
                      ELSE IF Trim(t) # <<>> THEN 1
                      ELSE 0)

\* /^(#{1,6})\s+(.+)$/ on the trimmed line: level 0 when there is no match
headerMatch(line) ==
    LET h  == RunLen(line, 1, {"#"})
        ws == RunLen(line, h + 1, {Sp})
    IN  IF h \in 1..6 /\ ws > 0 /\ h + ws < Len(line)
        THEN [level |-> h, content |-> Rest(line, h + ws + 1)]
        ELSE [level |-> 0, content |-> <<>>]

\* /^(\d+)\.\s+(.+)$/ on the trimmed line
orderedListMatch(line) ==
    LET dg == RunLen(line, 1, Digits)
        dot == dg + 1 <= Len(line) /\ line[dg + 1] = "."
        ws == RunLen(line, dg + 2, {Sp})
    IN  IF dg > 0 /\ dot /\ ws > 0 /\ dg + 1 + ws < Len(line)
        THEN [matched |-> TRUE, listNumber |-> SubSeq(line, 1, dg),
              content |-> Rest(line, dg + ws + 2)]
        ELSE [matched |-> FALSE, listNumber |-> <<>>, content |-> <<>>]

\* /^[-*]\s+(.+)$/ on the trimmed line
unorderedListMatch(line) ==
    LET ws == RunLen(line, 2, {Sp})
    IN  IF line # <<>> /\ line[1] \in {"-", "*"} /\ ws > 0 /\ 1 + ws < Len(line)
        THEN [matched |-> TRUE, content |-> Rest(line, ws + 2)]
        ELSE [matched |-> FALSE, content |-> <<>>]

----------------------------------------------------------------------------
(* Specification Spec: one call of parsePDFMarkdown *)

\* vertical lengths are in 1e-6 mm
Micro == 1000 * 1000

\* 0.352778 mm per point, in 1e-6 mm (lineHeight of parsePDFMarkdown)
PointMicro == 352778

marginBottom == 20

lineHeight == options.fontSize * PointMicro * options.lineHeight

maxY == call.pageHeight - marginBottom * Micro

\* mutant: a line advances the cursor by one and a half line heights
advanceTall(y) == y + lineHeight + lineHeight \div 2

\* currentY += lineHeight
advance(y) == y + lineHeight

\* the source lines the texts of the model are made of
SourceLines ==
    { <<"a", " ", "a", " ", "a", " ", "a", " ", "a", " ", "a">>,
      <<"*", "*", "a", "*", "*", " ", "W", " ", "a">>,
      <<" ", " ", "a", " ", "*", "a", "*", " ", "a">>,
      <<"*", "a", "a", " ", "a", " ", "a", "a", "*">>,
      <<"#", " ", "a", " ", "a", " ", "a">>,
      <<"1", ".", " ", "a", " ", "a", " ", "a">>,
      <<"-", " ", "W", " ", "a">>,
      <<" ", " ">>,
      <<"-", "-", "-">>,
      <<>> }

RECURSIVE JoinText(_)
JoinText(ls) ==
    IF Len(ls) = 1 THEN ls[1] ELSE ls[1] \o <<NL>> \o JoinText(Tail(ls))

RECURSIVE LineSeqs(_)
LineSeqs(n) ==
    IF n = 0 THEN {<<>>}
    ELSE {Append(ls, l) : ls \in LineSeqs(n - 1), l \in SourceLines}

Texts == {JoinText(ls) : ls \in UNION {LineSeqs(n) : n \in 1..MaxLines}}

Aligns == {"left", "center", "right", "justify"}
MaxWidths == {200, 400}
\* a page that holds one line below y, one that holds two, and an A4 page
PageHeights == {60 * Micro, 75 * Micro, 297 * Micro}
\* a call that starts at the top margin, and one that starts low on the page
StartYs == {20 * Micro, 45 * Micro}

\* The texts of the scenarios the specification names, laid out with a
\* maxWidth that holds each of their lines
HeadingOne == <<"#", " ", "H", "e", "a", "d", "i", "n", "g", " ", "O", "n", "e">>
FirstItem == <<"1", ".", " ", "F", "i", "r", "s", "t", " ", "i", "t", "e", "m">>
SecondItem == <<"2", ".", " ", "S", "e", "c", "o", "n", "d", " ", "i", "t", "e", "m">>
ExampleTexts ==
    { HeadingOne,
      JoinText(<<FirstItem, SecondItem>>),
      JoinText(<<FirstItem, <<>>, SecondItem>>),
      JoinText(<<FirstItem, <<Sp, Sp>>, SecondItem>>) }

\* (text, maxWidth) of the parsePDFMarkdown calls
LayoutCalls ==
    { [text |-> t, maxWidth |-> w] : t \in Texts, w \in MaxWidths }
    \cup { [text |-> t, maxWidth |-> 2000] : t \in ExampleTexts }

Init ==
    /\ metric \in Metrics
    /\ \E c \in LayoutCalls :
           /\ \E a \in Aligns, fs \in FontSizes :
                  options = [maxWidth |-> c.maxWidth, align |-> a, fontSize |-> fs,
                             lineHeight |-> 1]
           /\ \E y \in StartYs, h \in PageHeights :
                  call = [fn |-> "parsePDFMarkdown", text |-> c.text, x |-> 20, y |-> y,
                          pageHeight |-> h]
    /\ \E st \in EntryStyles :
           doc = [fontStyle |-> st, fontSize |-> options.fontSize, pages |-> 1]
    /\ pc = "entry"
    /\ textLines = <<>>
    /\ i = 0
    /\ currentY = call.y
    /\ block = NoBlock
    /\ draws = <<>>
    /\ divisions = <<>>
    /\ segments = <<>>
    /\ wrap = NoWrap
    /\ build = NoBuild

inputsUnchanged == UNCHANGED <<metric, options, call, build>>

\* lines 289-299: the empty text returns y at once; otherwise the text is
\* normalised and split, and the font reset
Enter ==
    /\ pc = "entry"
    /\ IF call.text = <<>>
       THEN /\ pc' = "done"
            /\ UNCHANGED <<doc, textLines, i>>
       ELSE /\ textLines' = Split(CollapseNewlines(ReplaceRules(call.text)), NL)
            /\ doc' = [doc EXCEPT !.fontStyle = "normal", !.fontSize = options.fontSize]
            /\ i' = 1
            /\ pc' = "loop"
    /\ UNCHANGED <<currentY, block, draws, divisions, segments, wrap>>
    /\ inputsUnchanged

AtLine == pc = "loop" /\ i <= Len(textLines)
curLine == Trim(textLines[i])

\* lines 310-313: a blank line advances the cursor
BlankLine ==
    /\ AtLine
    /\ curLine = <<>>
    /\ currentY' = advance(currentY)
    /\ i' = i + 1
    /\ UNCHANGED <<doc, pc, textLines, block, draws, divisions, segments, wrap>>
    /\ inputsUnchanged

\* lines 315-317: no room for one more line: return
PageFull ==
    /\ AtLine
    /\ curLine # <<>>
    /\ currentY + lineHeight > maxY
    /\ pc' = "done"
    /\ UNCHANGED <<doc, textLines, i, currentY, block, draws, divisions, segments, wrap>>
    /\ inputsUnchanged

Fits == AtLine /\ curLine # <<>> /\ ~(currentY + lineHeight > maxY)

BlockKind ==
    IF headerMatch(curLine).level # 0 THEN "heading"
    ELSE IF orderedListMatch(curLine).matched THEN "ordered"
    ELSE IF unorderedListMatch(curLine).matched THEN "unordered"
    ELSE "paragraph"

\* The start of a block of any kind: advance the cursor, return if it left
\* the page, set the heading font or draw the list marker, tokenize and wrap.
\* The lines.forEach that follows runs in RenderLine and SkipLine; a block
\* without lines ends here.
BeginBlock(kind, level, marker, content) ==
    LET baseIndentation == calculateIndentation(textLines[i])
        y1 == advance(currentY)
        listIndent == (baseIndentation * options.fontSize) \div 4
        d1 == IF kind = "heading"
              THEN [doc EXCEPT !.fontSize = (options.fontSize * (25 - level * 3)) \div 10,
                               !.fontStyle = "bold"]
              ELSE doc
        segs == parseInlineMarkdown(content)
        width == IF kind \in ListKinds THEN options.maxWidth - (listIndent + 5)
                 ELSE options.maxWidth
        r == splitTextToLines(d1, segs, width, baseIndentation)
        d2 == IF kind = "heading" /\ r.w.result = <<>>
              THEN [r.d EXCEPT !.fontSize = options.fontSize, !.fontStyle = "normal"]
              ELSE r.d
    IN  /\ currentY' = y1
        /\ IF y1 > maxY
           THEN /\ pc' = "done"
                /\ UNCHANGED <<doc, i, block, draws, segments, wrap>>
           ELSE /\ segments' = segs
                /\ wrap' = r.w
                /\ doc' = d2
                /\ draws' = IF kind \in ListKinds
                            THEN Append(draws, Draw(marker, RInt(call.x + listIndent), y1,
                                                    doc, i, 0))
                            ELSE draws
                /\ block' = [kind |-> kind, level |-> level, src |-> i,
                             lines |-> r.w.result, lineIndex |-> 1,
                             baseIndentation |-> baseIndentation,
                             penX |-> RInt(call.x)]
                /\ IF r.w.result = <<>>
                   THEN pc' = "loop" /\ i' = i + 1
                   ELSE pc' = "render" /\ i' = i
        /\ UNCHANGED <<textLines, divisions>>
        /\ inputsUnchanged

\* lines 319-331
BeginHeading ==
    /\ Fits /\ BlockKind = "heading"
    /\ BeginBlock("heading", headerMatch(curLine).level, <<>>, headerMatch(curLine).content)

\* lines 377-388
BeginOrdered ==
    /\ Fits /\ BlockKind = "ordered"
    /\ BeginBlock("ordered", 0, Append(orderedListMatch(curLine).listNumber, "."),
                  orderedListMatch(curLine).content)

\* lines 431-441
BeginUnordered ==
    /\ Fits /\ BlockKind = "unordered"
    /\ BeginBlock("unordered", 0, <<Bullet>>, unorderedListMatch(curLine).content)

\* lines 484-488
BeginParagraph ==
    /\ Fits /\ BlockKind = "paragraph"
    /\ BeginBlock("paragraph", 0, <<>>, curLine)

Rendering == pc = "render" /\ block.lineIndex <= Len(block.lines)

\* after the callback of the last line lines.forEach is over: a heading
\* resets the font (lines 372-373) and the loop continues with the next line
EndOfLine(d) ==
    IF block.lineIndex = Len(block.lines)
    THEN /\ pc' = "loop"
         /\ i' = i + 1
         /\ doc' = IF block.kind = "heading"
                   THEN [d EXCEPT !.fontSize = options.fontSize, !.fontStyle = "normal"]
                   ELSE d
    ELSE /\ pc' = "render"
         /\ i' = i
         /\ doc' = d

\* mutant: the line is drawn wherever the cursor is
RenderLineUnguarded ==
    /\ Rendering
    /\ LET k == block.lineIndex
           r == renderBlockLine(doc, options, call.x, currentY, block.kind,
                                block.baseIndentation, block.lines[k],
                                k = Len(block.lines), i, k)
       IN  /\ draws' = draws \o r.draws
           /\ divisions' = divisions \o r.divs
           /\ block' = [block EXCEPT !.lineIndex = @ + 1, !.penX = r.x]
           /\ EndOfLine(r.d)
    /\ currentY' = IF block.lineIndex < Len(block.lines)
                   THEN advance(currentY) ELSE currentY
    /\ UNCHANGED <<textLines, segments, wrap>>
    /\ inputsUnchanged

\* one callback of lines.forEach with the cursor on the page: the line is
\* drawn, and the cursor advances unless the line is the last of the block
RenderLine ==
    /\ Rendering
    /\ ~(currentY > maxY)
    /\ LET k == block.lineIndex
           r == renderBlockLine(doc, options, call.x, currentY, block.kind,
                                block.baseIndentation, block.lines[k],
                                k = Len(block.lines), i, k)
       IN  /\ draws' = draws \o r.draws
           /\ divisions' = divisions \o r.divs
           /\ block' = [block EXCEPT !.lineIndex = @ + 1, !.penX = r.x]
           /\ EndOfLine(r.d)
    /\ currentY' = IF block.lineIndex < Len(block.lines)
                   THEN advance(currentY) ELSE currentY
    /\ UNCHANGED <<textLines, segments, wrap>>
    /\ inputsUnchanged

\* one callback of lines.forEach with the cursor below maxY: `return` leaves
\* the callback, the line is not drawn
SkipLine ==
    /\ Rendering
    /\ currentY > maxY
    /\ EndOfLine(doc)
    /\ block' = [block EXCEPT !.lineIndex = @ + 1]
    /\ UNCHANGED <<textLines, currentY, draws, divisions, segments, wrap>>
    /\ inputsUnchanged

\* line 530: the loop is over
Return ==
    /\ pc = "loop"
    /\ i > Len(textLines)
    /\ pc' = "done"
    /\ UNCHANGED <<doc, textLines, i, currentY, block, draws, divisions, segments, wrap>>
    /\ inputsUnchanged

Next ==
    \/ Enter
    \/ BlankLine
    \/ PageFull
    \/ BeginHeading
    \/ BeginOrdered
    \/ BeginUnordered
    \/ BeginParagraph
    \/ RenderLine
    \/ SkipLine
    \/ Return

Spec == Init /\ [][Next]_vars

----------------------------------------------------------------------------
(* Vocabulary of the properties *)

StripMarkers(t) == SelectSeq(t, LAMBDA c : c \notin MarkerChars)

\* a segment's width measured in the segment's own style, at the active size
SegWidth(seg) == getTextWidth(applyStyle(doc, seg.style, doc.fontSize), seg.text)

LineWidth(line) == SumSeq([k \in 1..Len(line) |-> SegWidth(line[k])])

LineText(line) == Concat([k \in 1..Len(line) |-> line[k].text])

\* the texts of the lines, a single space in place of every line break
RECURSIVE JoinLines(_)
JoinLines(ls) ==
    IF ls = <<>> THEN <<>>
    ELSE IF Len(ls) = 1 THEN LineText(ls[1])
    ELSE LineText(ls[1]) \o <<Sp>> \o JoinLines(Tail(ls))

\* the emphasis markers of a string read left to right: a marker character
\* followed by the same character is one double marker
RECURSIVE MarkerTokensFrom(_, _)
MarkerTokensFrom(t, k) ==
    IF k > Len(t) THEN <<>>
    ELSE IF t[k] \notin MarkerChars THEN MarkerTokensFrom(t, k + 1)
    ELSE IF k + 1 <= Len(t) /\ t[k + 1] = t[k]
    THEN <<[pos |-> k, double |-> TRUE]>> \o MarkerTokensFrom(t, k + 2)
    ELSE <<[pos |-> k, double |-> FALSE]>> \o MarkerTokensFrom(t, k + 1)

MarkersBefore(t, p, dbl) ==
    LET toks == MarkerTokensFrom(t, 1)
    IN  Cardinality({j \in 1..Len(toks) : toks[j].pos < p /\ toks[j].double = dbl})

Odd(n) == n % 2 = 1

\* the maximal runs of non-marker characters of a string, as (first, last)
RunStarts(t) ==
    {p \in 1..Len(t) : t[p] \notin MarkerChars /\ (p = 1 \/ t[p - 1] \in MarkerChars)}

RunEnd(t, p) ==
    CHOOSE e \in p..Len(t) :
        /\ \A q \in p..e : t[q] \notin MarkerChars
        /\ (e = Len(t) \/ t[e + 1] \in MarkerChars)

RECURSIVE SortedSeq(_)
SortedSeq(S) ==
    IF S = {} THEN <<>>
    ELSE LET m == CHOOSE x \in S : \A y \in S : x <= y
         IN  <<m>> \o SortedSeq(S \ {m})

\* the call was handed a segment list of its own, not a source string
FromSegments == call.fn = "splitTextToLines(segments)"

Tokenized == pc \in {"split", "words", "returned"} /\ ~FromSegments

----------------------------------------------------------------------------
(* Properties of parseInlineMarkdown and splitTextToLines (SpecWrap) *)

\* C1 (as claimed): every line splitTextToLines returns has segments whose
\* widths, each measured in the segment's own style, sum to at most
\* maxWidth - baseIndentation*fontSize, unless the line is exactly one
\* single-character fragment.
C1_WidthBound ==
    wrap.done =>
        \A k \in 1..Len(wrap.result) :
            LET line == wrap.result[k]
            IN  \/ LineWidth(line) <= wrap.availableWidth
                \/ Len(line) = 1 /\ Len(line[1].text) = 1

\* C4 (as claimed): the texts of all segments of all lines, joined with one
\* space per line break, are exactly the source string without its marker
\* characters.
C4_Reconstruction ==
    wrap.done /\ ~FromSegments => JoinLines(wrap.result) = StripMarkers(call.text)

\* the fragments splitWordIfNeeded returns for the word the wrapper visits next
HeadFragments ==
    LET h == Head(wrap.queue)
    IN  splitWordIfNeeded(doc, h.word, h.style, wrap.availableWidth)

\* the word the wrapper visits next does not fit a line of its own
HeadOverflows ==
    /\ pc = "words" /\ wrap.queue # <<>>
    /\ LET h == Head(wrap.queue)
       IN  getTextWidth(applyStyle(doc, h.style, doc.fontSize), h.word)
               > wrap.availableWidth

\* the fragments are non-empty, concatenate to the word, and a character at
\* least as wide as the available width is a fragment of its own
FragmentsSound ==
    HeadOverflows =>
        LET h     == Head(wrap.queue)
            d     == applyStyle(doc, h.style, doc.fontSize)
            parts == HeadFragments
        IN  /\ \A k \in 1..Len(parts) : parts[k] # <<>>
            /\ Concat(parts) = h.word
            /\ \A k \in 1..Len(parts) : \A j \in 1..Len(parts[k]) :
                   getTextWidth(d, <<parts[k][j]>>) >= wrap.availableWidth
                       => Len(parts[k]) = 1

\* the iteration of the words loop that is due consumes one word of the queue
WordConsumed ==
    pc = "words" /\ wrap.queue # <<>>
        => Len(wrapWord(wrap, doc).w.queue) < Len(wrap.queue)

\* C5: splitTextToLines returns on every input (every iteration of its loop
\* consumes one word of a finite queue, and the loop is left for the return
\* when the queue is empty), and splitWordIfNeeded's fragments are sound.
C5_Terminates ==
    /\ FragmentsSound
    /\ WordConsumed
    /\ (pc = "words" /\ wrap.queue = <<>> => wrapFinish(wrap).done)

\* C5 witness: an overflowing word with a character wider than the line was
\* split and the call returned, that character on a line of its own
C5_Witness ==
    /\ pc = "returned"
    /\ \E k \in 1..Len(wrap.result) :
           /\ Len(wrap.result[k]) = 1
           /\ Len(wrap.result[k][1].text) = 1
           /\ LineWidth(wrap.result[k]) > wrap.availableWidth
    /\ Len(wrap.result) >= 2

BoldItalicExpected ==
    << Segment(<<"B", "o", "l", "d">>, [DefaultStyle EXCEPT !.bold = TRUE]),
       Segment(<<" ", "a", "n", "d", " ">>, DefaultStyle),
       Segment(<<"i", "t", "a", "l", "i", "c">>, [DefaultStyle EXCEPT !.italic = TRUE]),
       Segment(<<" ", "t", "e", "x", "t">>, DefaultStyle) >>

\* C9: "**Bold** and *italic* text" yields Bold (bold), " and " (plain),
\* italic (italic), " text" (plain); for every input the segments are the
\* maximal runs of non-marker characters in order, each bold iff an odd
\* number of double markers precede it, italic iff an odd number of single ones.
C9_TokenStyles ==
    Tokenized =>
        /\ call.text = BoldItalicExample => segments = BoldItalicExpected
        /\ LET t      == call.text
               starts == SortedSeq(RunStarts(t))
           IN  /\ Len(segments) = Len(starts)
               /\ \A k \in 1..Len(segments) :
                      /\ segments[k].text = SubSeq(t, starts[k], RunEnd(t, starts[k]))
                      /\ segments[k].style.bold = Odd(MarkersBefore(t, starts[k], TRUE))
                      /\ segments[k].style.italic = Odd(MarkersBefore(t, starts[k], FALSE))

C9_Witness ==
    /\ Tokenized
    /\ call.text = BoldItalicExample
    /\ Len(segments) = 4

\* C10: for every input, markers unterminated or not, the segment texts
\* concatenate to the input without its "*" and "_" characters; text after an
\* unclosed marker is emitted in the open style; the empty input gives no segment.
C10_AllTextEmitted ==
    Tokenized =>
        /\ Concat([k \in 1..Len(segments) |-> segments[k].text]) = StripMarkers(call.text)
        /\ call.text = <<>> => segments = <<>>
        /\ \A k \in 1..Len(segments) :
               /\ segments[k].text # <<>>
               /\ \A j \in 1..Len(segments[k].text) : segments[k].text[j] \notin MarkerChars

\* C10 witness: text after a marker that is never closed is emitted, italic
C10_Witness ==
    /\ Tokenized
    /\ call.text = <<"a", "*", "W">>
    /\ segments = << Segment(<<"a">>, DefaultStyle),
                     Segment(<<"W">>, [DefaultStyle EXCEPT !.italic = TRUE]) >>

----------------------------------------------------------------------------
(* Properties of parsePDFMarkdown (Spec) *)

\* wrapped line k of source line src has been drawn
LineDrawn(src, k) == \E n \in 1..Len(draws) : draws[n].src = src /\ draws[n].line = k

\* C2 (as claimed): parsePDFMarkdown returns only after every source line
\* has been visited, and every wrapped line the callback of lines.forEach was
\* called for has been drawn: none is skipped or abandoned at the page bottom.
C2_AllLinesDrawn ==
    /\ pc = "done" /\ call.text # <<>> => i > Len(textLines)
    /\ \A k \in 1..(block.lineIndex - 1) : LineDrawn(block.src, k)

\* C3 (as claimed): a line about to be written with
\* currentY + lineHeight > pageHeight - marginBottom makes the layout add
\* exactly one page before anything else happens.
C3_PageBreak ==
    [][AtLine /\ curLine # <<>> /\ currentY + lineHeight > maxY
           => doc'.pages = doc.pages + 1]_vars

\* the draw calls RenderLine issues in this step
NewDraws == SubSeq(draws', Len(draws) + 1, Len(draws'))

\* what the line RenderLine is at would be drawn as with align = left
AsLeft ==
    renderBlockLine(doc, [options EXCEPT !.align = "left"], call.x, currentY,
                    block.kind, block.baseIndentation, block.lines[block.lineIndex],
                    block.lineIndex = Len(block.lines), i, block.lineIndex)

Positions(ds) == [n \in 1..Len(ds) |-> ds[n].x]

\* the doc.text calls: their arguments and the font style they are issued
\* in, and the font size too unless the block is a heading (a heading is
\* drawn at the heading size when justified and at the base size otherwise)
Calls(ds) ==
    [n \in 1..Len(ds) |->
        [text |-> ds[n].text, x |-> ds[n].x, y |-> ds[n].y, fontStyle |-> ds[n].fontStyle,
         fontSize |-> IF block.kind = "heading" THEN 0 ELSE ds[n].fontSize]]

JustifyLineDue == Rendering /\ ~(currentY > maxY) /\ options.align = "justify"

\* C6 (as claimed): with align = justify the last wrapped line of a block is
\* drawn at the x positions, and with the total advance, of align = left.
C6_LastLineAsLeft ==
    [][JustifyLineDue /\ block.lineIndex = Len(block.lines)
           => /\ Positions(NewDraws) = Positions(AsLeft.draws)
              /\ block'.penX = AsLeft.x]_vars

C8_CursorSteps ==
    /\ [][\/ currentY' = currentY
          \/ currentY' = currentY + lineHeight
          \/ doc'.pages > doc.pages]_vars
    /\ [](pc = "done" /\ doc.pages = 1
             => currentY >= call.y /\ (currentY - call.y) % lineHeight = 0)

\* C8 witness: a call returned after several advances, lines drawn
C8_Witness ==
    /\ pc = "done"
    /\ currentY >= call.y + 3 * lineHeight
    /\ draws # <<>>

----------------------------------------------------------------------------
(* Properties of parseInlineMarkdown and splitTextToLines (SpecWrap), continued *)

\* the source strings that consist of unmatched delimiter characters only
LoneDelimiters == { <<"*">>, <<"*", "*">>, <<"*", "*", "*">>, <<"_">> }

\* C11 (as claimed): a string of delimiter characters with no matching close
\* is literal text: the tokenizer emits a segment that holds those
\* characters, never the empty sequence.
C11_DelimitersLiteral ==
    Tokenized /\ call.text \in LoneDelimiters
        => /\ segments # <<>>
           /\ Concat([k \in 1..Len(segments) |-> segments[k].text]) = call.text

----------------------------------------------------------------------------
(* Properties of parsePDFMarkdown (Spec), continued *)

\* the block at hand is the heading block of the source line "# Heading One"
HeadingOneBlock ==
    /\ block.kind = "heading"
    /\ Trim(textLines[block.src]) = HeadingOne
    /\ call.text = HeadingOne

\* C12 (as claimed): "# Heading One" with room for one line is laid out as
\* exactly one line of a single segment "Heading One" whose style has
\* heading = 1 and bold = true, and every segment of every heading line
\* carries the heading level in its style.
C12_HeadingOne ==
    /\ HeadingOneBlock
           => /\ Len(block.lines) = 1
              /\ Len(block.lines[1]) = 1
              /\ block.lines[1][1].text = headerMatch(HeadingOne).content
              /\ block.lines[1][1].style.heading = 1
              /\ block.lines[1][1].style.bold
    /\ block.kind = "heading"
           => \A k \in 1..Len(block.lines) : \A n \in 1..Len(block.lines[k]) :
                  block.lines[k][n].style.heading = block.level

----------------------------------------------------------------------------
(* Properties of splitTextToLines (SpecWrap): scenarios and ordering *)

\* splitTextToLines has returned from the call on the single word of measured
\* width 500, with an available width of 100 and characters 20 wide
LongWordWrapped ==
    /\ pc = "returned"
    /\ call.text = LongWord
    /\ wrap.availableWidth = 100
    /\ getTextWidth(doc, LongWord) = 500
    /\ \A k \in 1..Len(LongWord) : getTextWidth(doc, <<LongWord[k]>>) = 20

\* the lines are n lines of one fragment of c characters each
ForcedLines(ls, n, c) ==
    /\ Len(ls) = n
    /\ \A k \in 1..Len(ls) : Len(ls[k]) = 1 /\ Len(ls[k][1].text) = c

\* C13: a single word of measured width 500, laid out with an available
\* width of 100 and characters 20 wide, becomes 5 forced lines of 5
\* characters each (100/20 = 5 characters fill a line), which together are
\* the word.
C13_LongWordLines ==
    LongWordWrapped
        => /\ ForcedLines(wrap.result, 5, 5)
           /\ Concat([k \in 1..Len(wrap.result) |-> LineText(wrap.result[k])]) = LongWord

\* C13 witness: the call on that word has returned its lines
C13_Witness == LongWordWrapped /\ Len(wrap.result) > 1

\* C13 (as claimed): the word becomes 5 forced lines of 1 character each.
C13_OneCharLines == LongWordWrapped => ForcedLines(wrap.result, 5, 1)

----------------------------------------------------------------------------
(* Properties of parsePDFMarkdown (Spec): lists and blank lines *)

\* the texts of the list markers drawn so far, in order (a marker is drawn
\* as line 0 of its block), the bullets left out
MarkersDrawn ==
    LET ms == SelectSeq(draws, LAMBDA dr : dr.line = 0 /\ dr.text # <<Bullet>>)
    IN  [n \in 1..Len(ms) |-> ms[n].text]

\* the markers of the ordered items of a text, in source order: blank lines
\* contribute nothing
SourceMarkers(t) ==
    LET ls    == Split(t, NL)
        items == SelectSeq(ls, LAMBDA l : orderedListMatch(Trim(l)).matched)
    IN  [n \in 1..Len(items) |-> Append(orderedListMatch(Trim(items[n])).listNumber, ".")]

\* "1. First item" then "2. Second item", with and without a line between
OrderedExamples ==
    { JoinText(<<FirstItem, SecondItem>>),
      JoinText(<<FirstItem, <<>>, SecondItem>>),
      JoinText(<<FirstItem, <<Sp, Sp>>, SecondItem>>) }

\* C14 (as claimed): for "1. First item" then "2. Second item" the markers
\* drawn are "1." and "2." in that order, and the markers drawn for any text
\* are those of its ordered items in order, whether or not blank lines
\* separate the items.
C14_OrderedMarkers ==
    pc = "done"
        => /\ call.text \in OrderedExamples => MarkersDrawn = << <<"1", ".">>, <<"2", ".">> >>
           /\ MarkersDrawn = SourceMarkers(call.text)


\* a source line that is blank: empty, whitespace only, or a "---" rule
BlankSource(l) == Trim(l) = <<>> \/ Trim(l) = <<"-", "-", "-">>

\* a text that is one run of consecutive blank source lines
BlankRun(t) == t # <<>> /\ \A k \in 1..Len(Split(t, NL)) : BlankSource(Split(t, NL)[k])

\* C15 (as claimed): every blank line the layout processes advances the
\* cursor by exactly one lineHeight, and a run of consecutive blank source
\* lines (empty, whitespace-only, "---") advances it by no more than one
\* lineHeight in total.
C15_BlankAdvance ==
    /\ [][AtLine /\ curLine = <<>> => currentY' = currentY + lineHeight]_vars
    /\ [](pc = "done" /\ BlankRun(call.text) => currentY <= call.y + lineHeight)

----------------------------------------------------------------------------
(* Specification SpecBuild: one document build, generatePdf of Preview.tsx  *)

\* A chapter of the book: its type, the number of non-empty paragraphs of its
\* content, of its images, and of its sub-chapters (one paragraph each)
Chapter(ty, p, im, sub) ==
    [type |-> ty, paragraphs |-> p, images |-> im, subChapters |-> sub]

ChapterShapes ==
    { Chapter("frontmatter", 1, 0, 0),
      Chapter("chapter", 1, 0, 0),
      Chapter("chapter", 0, 1, 0),
      Chapter("chapter", 1, 1, 1),
      Chapter("backmatter", 1, 1, 0) }

RECURSIVE ChapterSeqs(_)
ChapterSeqs(n) ==
    IF n = 0 THEN {<<>>}
    ELSE {Append(cs, c) : cs \in ChapterSeqs(n - 1), c \in ChapterShapes}

Books == UNION {ChapterSeqs(n) : n \in 0..MaxChapters}

Rep(op, n) == [k \in 1..n |-> op]

\* chapters.filter(ch => ch.type === ty)
OfType(chs, ty) == SelectSeq(chs, LAMBDA c : c.type = ty)

\* the loops over frontmatter and backmatter chapters: one parsePDFMarkdown
\* call for every paragraph
TextOps(chs) == Concat([k \in 1..Len(chs) |-> Rep("layout", chs[k].paragraphs)])

\* the loop over the main chapters: the paragraphs are laid out, then every
\* image is loaded and placed, then the paragraphs of the sub-chapters are
\* laid out
MainOps(chs) ==
    Concat([k \in 1..Len(chs) |->
               Rep("layout", chs[k].paragraphs) \o Rep("image", chs[k].images)
                   \o Rep("layout", chs[k].subChapters)])

\* number of images Promise.all waits for before anything is drawn
TotalImages(chs) == SumSeq([k \in 1..Len(chs) |-> chs[k].images])

\* what generatePdf does after its first statements, in program order
Plan(b) ==
    <<"preload">>
        \o TextOps(OfType(b.chapters, "frontmatter"))
        \o MainOps(OfType(b.chapters, "chapter"))
        \o TextOps(OfType(b.chapters, "backmatter"))
        \o (IF b.coverImage THEN <<"cover">> ELSE <<>>)
        \o (IF b.backCoverImage THEN <<"cover">> ELSE <<>>)
        \o <<"merge", "download">>

InitBuild ==
    /\ metric = CHOOSE m \in Metrics : m.name = "mono"
    /\ \E fs \in FontSizes : doc = [fontStyle |-> "normal", fontSize |-> fs, pages |-> 1]
    /\ options = NoOptions
    /\ call = [fn |-> "generatePdf"]
    /\ pc = "build"
    /\ textLines = <<>>
    /\ i = 0
    /\ currentY = 0
    /\ block = NoBlock
    /\ draws = <<>>
    /\ divisions = <<>>
    /\ segments = <<>>
    /\ wrap = NoWrap
    /\ \E chs \in Books, cover \in BOOLEAN, back \in BOOLEAN, err \in BOOLEAN :
           build = [pc |-> "idle", chapters |-> chs, coverImage |-> cover,
                    backCoverImage |-> back, plan |-> <<>>, events |-> <<>>,
                    isGenerating |-> FALSE, error |-> err, errorSets |-> 0,
                    downloads |-> 0, covers |-> 0, cause |-> "none"]

buildOnly == UNCHANGED <<metric, doc, options, call, pc, textLines, i, currentY,
                         block, draws, divisions, segments, wrap>>

\* generatePdf is at the operation op
At(op) == build.pc = "running" /\ build.plan # <<>> /\ Head(build.plan) = op

\* the operation at hand was carried out (event e) and either completed or
\* threw: a throw leaves the try block for the catch clause
Step(e, ok, cause) ==
    build' = IF ok
             THEN [build EXCEPT !.events = Append(@, e), !.plan = Tail(@)]
             ELSE [build EXCEPT !.events = Append(@, e), !.pc = "catch",
                                !.cause = cause]

\* lines 92-101
BuildStart ==
    /\ build.pc = "idle"
    /\ build' = [build EXCEPT !.pc = "running", !.isGenerating = TRUE,
                              !.error = FALSE, !.plan = Plan(build)]
    /\ buildOnly

\* lines 103-109: await Promise.all(imagePromises); it rejects when an image
\* fails to load.  Lines 111-163 (title pages) follow without suspension.
PreloadImages ==
    /\ At("preload")
    /\ \E ok \in (IF TotalImages(build.chapters) > 0 THEN BOOLEAN ELSE {TRUE}) :
           Step("await images", ok, "image")
    /\ buildOnly

\* one parsePDFMarkdown call (lines 177, 292, 332, 362); it throws when the
\* document cannot measure text
LayoutParagraph ==
    /\ At("layout")
    /\ \E ok \in BOOLEAN : Step("layout", ok, "measure")
    /\ buildOnly

\* line 308: await loadImage(image.url) inside the loop over a main
\* chapter's images
LoadImage ==
    /\ At("image")
    /\ \E ok \in BOOLEAN : Step("await image", ok, "image")
    /\ buildOnly

\* lines 379-396: await generateCoverPDF(...) in a try block of its own; a
\* failure is logged and the build goes on without that cover
GenerateCover ==
    /\ At("cover")
    /\ \E ok \in BOOLEAN :
           build' = [build EXCEPT !.events = Append(@, "await cover"),
                                  !.plan = Tail(@),
                                  !.covers = IF ok THEN @ + 1 ELSE @]
    /\ buildOnly

\* lines 398-415: the awaits of the merge (create, load, copyPages, save)
MergeDocuments ==
    /\ At("merge")
    /\ Step("await merge", TRUE, "none")
    /\ buildOnly

\* lines 416-423: the download is triggered, the try block is left
Download ==
    /\ At("download")
    /\ build' = [build EXCEPT !.downloads = @ + 1, !.plan = Tail(@), !.pc = "finally"]
    /\ buildOnly

\* lines 425-427: catch (error) { setError(...) }
CatchError ==
    /\ build.pc = "catch"
    /\ build' = [build EXCEPT !.error = TRUE, !.errorSets = @ + 1, !.pc = "finally"]
    /\ buildOnly

\* mutant: the finally clause leaves isGenerating as it is
FinallyKeepsFlag ==
    /\ build.pc = "finally"
    /\ build' = [build EXCEPT !.pc = "finished"]
    /\ buildOnly

\* lines 428-430: finally { setIsGenerating(false) }
Finally ==
    /\ build.pc = "finally"
    /\ build' = [build EXCEPT !.isGenerating = FALSE, !.pc = "finished"]
    /\ buildOnly

NextBuild ==
    \/ BuildStart
    \/ PreloadImages
    \/ LayoutParagraph
    \/ LoadImage
    \/ GenerateCover
    \/ MergeDocuments
    \/ Download
    \/ CatchError
    \/ Finally

SpecBuild == InitBuild /\ [][NextBuild]_vars

\* the steps of a build that has been started: the synchronous code between
\* two awaits runs to the next await, and every awaited promise settles (an
\* image fires load or error, lines 18-19; the merge resolves or rejects)
BuildStep ==
    \/ PreloadImages
    \/ LayoutParagraph
    \/ LoadImage
    \/ GenerateCover
    \/ MergeDocuments
    \/ Download
    \/ CatchError
    \/ Finally

\* SpecBuild where a started build is not suspended for ever
SpecBuildFair == SpecBuild /\ WF_vars(BuildStep)

----------------------------------------------------------------------------
(* Properties of generatePdf (SpecBuild) *)

IsAwait(e) == e # "layout"

\* C16 (as claimed): within one build no await lies between the first and
\* the last call of parsePDFMarkdown: every suspension is before layout
\* starts or after it ends.
C16_NoAwaitBetweenLayouts ==
    \A a, b, c \in 1..Len(build.events) :
        a < b /\ b < c /\ build.events[a] = "layout" /\ build.events[c] = "layout"
            => ~IsAwait(build.events[b])

\* C17 (as claimed): a build is aborted only when text cannot be measured;
\* the abort sets the error state once and triggers no download.
C17_AbortOnlyUnmeasurable ==
    build.pc = "finished" /\ build.cause # "none"
        => /\ build.cause = "measure"
           /\ build.errorSets = 1
           /\ build.error
           /\ build.downloads = 0

----------------------------------------------------------------------------
(* Properties of parseInlineMarkdown and splitTextToLines (SpecWrap): links, *)
(* word order, greedy filling                                               *)

SegmentTexts == [k \in 1..Len(segments) |-> segments[k].text]

\* C18 (as claimed): for the link [a](W) the tokenizer emits a segment whose
\* text is the link text and whose style carries an underline/link flag, and
\* neither the brackets nor the URL appear in any segment text.  (The rule
\* beneath the segment is drawn from that flag.)
C18_LinkSegment ==
    Tokenized /\ call.text = LinkExample
        => /\ \E k \in 1..Len(segments) :
                  /\ segments[k].text = LinkText
                  /\ DOMAIN segments[k].style \cap {"underline", "link"} # {}
           /\ Concat(SegmentTexts) = LinkText


\* the non-empty space-separated words of the input segments, in order, each
\* with its segment's style
InputWords ==
    Concat([k \in 1..Len(segments) |->
               LET ws == SelectSeq(Split(segments[k].text, Sp), LAMBDA x : x # <<>>)
               IN  [j \in 1..Len(ws) |-> [word |-> ws[j], style |-> segments[k].style]]])

\* the segments of the returned lines that are not an inserted space, read
\* line by line and left to right
OutputWords ==
    SelectSeq(Concat(wrap.result), LAMBDA sg : sg.text # <<Sp>>)

\* a word fits a line of its own
FitsAlone(iw) ==
    getTextWidth(applyStyle(doc, iw.style, doc.fontSize), iw.word) <= wrap.availableWidth

IsPrefix(p, t) == Len(p) <= Len(t) /\ SubSeq(t, 1, Len(p)) = p

\* out is in, word for word in the same order, where a word that does not fit
\* a line may appear as consecutive fragments that concatenate to it; rest is
\* what is left to match of the first word of in (the whole word at first)
RECURSIVE SameWords(_, _, _)
SameWords(out, in, rest) ==
    IF in = <<>> THEN out = <<>>
    ELSE IF out = <<>> THEN FALSE
    ELSE LET t == Head(out).text
         IN  /\ t # <<>>
             /\ IsPrefix(t, rest)
             /\ (FitsAlone(Head(in)) => t = Head(in).word)
             /\ IF t = rest
                THEN SameWords(Tail(out), Tail(in),
                               IF Len(in) > 1 THEN in[2].word ELSE <<>>)
                ELSE SameWords(Tail(out), in, SubSeq(rest, Len(t) + 1, Len(rest)))

\* C19: the word texts of splitTextToLines' output, read line by line and
\* left to right without the inserted spaces and with the fragments of a
\* force-split word concatenated, are the non-empty space-separated words of
\* the input segments in their order; no character is added to a word.
C19_WordOrder ==
    pc = "returned"
        => SameWords(OutputWords, InputWords,
                     IF InputWords # <<>> THEN InputWords[1].word ELSE <<>>)

\* C19 witness: an input of several different words, one of them force-split,
\* has been laid out on several lines
C19_Witness ==
    /\ pc = "returned"
    /\ Len(InputWords) >= 3
    /\ Len(OutputWords) > Len(InputWords)
    /\ Len(wrap.result) >= 3
    /\ \E a, b \in 1..Len(InputWords) : InputWords[a].word # InputWords[b].word

\* for every output word the index of the input word it is, or is a fragment of
RECURSIVE Owners(_, _, _, _)
Owners(out, in, rest, n) ==
    IF out = <<>> \/ in = <<>> THEN <<>>
    ELSE IF Len(Head(out).text) >= Len(rest)
    THEN <<n>> \o Owners(Tail(out), Tail(in),
                         IF Len(in) > 1 THEN in[2].word ELSE <<>>, n + 1)
    ELSE <<n>> \o Owners(Tail(out), in,
                         SubSeq(rest, Len(Head(out).text) + 1, Len(rest)), n)

OutputOwners ==
    Owners(OutputWords, InputWords,
           IF InputWords # <<>> THEN InputWords[1].word ELSE <<>>, 1)

WordCount(line) == Len(SelectSeq(line, LAMBDA sg : sg.text # <<Sp>>))

\* the input word that the first word of returned line k is, or is cut from
FirstWordOwner(k) ==
    InputWords[OutputOwners[SumSeq([j \in 1..(k - 1) |-> WordCount(wrap.result[j])]) + 1]]

\* the width of a line as splitTextToLines accumulates it: every word in its
\* own style, spaceWidth for every inserted space
AccumulatedWidth(line) ==
    SumSeq([n \in 1..Len(line) |->
               IF line[n].text = <<Sp>> THEN wrap.spaceWidth ELSE SegWidth(line[n])])

\* C20: for every two consecutive returned lines, the previous line's width
\* plus spaceWidth plus the width of the next line's first word exceeds the
\* available width, unless the next line begins with a fragment of a
\* force-split word: a whole word starts a line only if it did not fit.
C20_Greedy ==
    pc = "returned"
        => \A k \in 1..(Len(wrap.result) - 1) :
               \/ ~FitsAlone(FirstWordOwner(k + 1))
               \/ AccumulatedWidth(wrap.result[k]) + wrap.spaceWidth
                      + SegWidth(wrap.result[k + 1][1]) > wrap.availableWidth

\* C20 witness: a returned line begins with a whole word that did not fit the
\* line before it, which holds more than one word
C20_Witness ==
    /\ pc = "returned"
    /\ \E k \in 1..(Len(wrap.result) - 1) :
           /\ FitsAlone(FirstWordOwner(k + 1))
           /\ WordCount(wrap.result[k]) >= 2

----------------------------------------------------------------------------
(* Properties of splitTextToLines (SpecWrap): fragments, empty lines *)

\* the positions in OutputWords of the words of returned line k
WordPositions(k) ==
    LET before == SumSeq([j \in 1..(k - 1) |-> WordCount(wrap.result[j])])
    IN  (before + 1)..(before + WordCount(wrap.result[k]))

\* C21 (as claimed): every fragment of a word that alone exceeds the
\* available width is a line of its own: a returned line that holds a
\* fragment of a force-split word holds nothing else.
C21_FragmentAlone ==
    pc = "returned"
        => \A k \in 1..Len(wrap.result) :
               WordCount(wrap.result[k]) >= 2
                   => \A p \in WordPositions(k) : FitsAlone(InputWords[OutputOwners[p]])

----------------------------------------------------------------------------
(* Properties of parsePDFMarkdown (Spec): fonts and bounds of the draw calls *)

\* the heading level of the source line a draw call belongs to, 0 for none
DrawLevel(dr) == headerMatch(Trim(textLines[dr.src])).level

\* C22 (as claimed): every text draw call of a heading block of level L is
\* issued at the font size options.fontSize * (2.5 - 0.3 * L) in the bold
\* style, whatever the alignment.
C22_HeadingFont ==
    \A n \in 1..Len(draws) :
        DrawLevel(draws[n]) # 0
            => /\ draws[n].fontSize
                      = (options.fontSize * (25 - 3 * DrawLevel(draws[n]))) \div 10
               /\ draws[n].fontStyle = "bold"

----------------------------------------------------------------------------
(* Properties of parseInlineMarkdown (SpecWrap): runs and markers *)

SameFlags(a, b) == a.style.bold = b.style.bold /\ a.style.italic = b.style.italic

\* C23 (as claimed): every segment of the tokenizer is a maximal run of one
\* style: no two adjacent segments have the same bold and italic flags.
C23_MaximalRuns ==
    Tokenized
        => \A k \in 1..(Len(segments) - 1) : ~SameFlags(segments[k], segments[k + 1])


\* the markers of the source string, in order
Toks == MarkerTokensFrom(call.text, 1)

\* two markers of the same character and the same length
SameKind(a, b) == call.text[a.pos] = call.text[b.pos] /\ a.double = b.double

\* marker j opens an emphasis that marker l, the next of its kind, closes
Closes(j, l) ==
    /\ j < l
    /\ SameKind(Toks[j], Toks[l])
    /\ \A m \in (j + 1)..(l - 1) : ~SameKind(Toks[j], Toks[m])
    /\ ~Odd(Cardinality({m \in 1..(j - 1) : SameKind(Toks[j], Toks[m])}))

\* the flag a marker stands for is set in the segment's style
Flag(seg, tok) == IF tok.double THEN seg.style.bold ELSE seg.style.italic

\* C24 (as claimed): an emphasis is closed only by the marker character that
\* opened it: all text between an opening marker and the next marker of the
\* same character and length carries the emphasis, whatever other markers
\* lie between them (in *a_b* the text b is italic).
C24_SameMarkerCloses ==
    Tokenized
        => LET starts == SortedSeq(RunStarts(call.text))
           IN  \A j, l \in 1..Len(Toks) :
                   Closes(j, l)
                       => \A k \in 1..Len(segments) :
                              Toks[j].pos < starts[k] /\ starts[k] < Toks[l].pos
                                  => Flag(segments[k], Toks[j])


----------------------------------------------------------------------------
(* Properties of splitTextToLines (SpecWrap): empty lines and segments *)

\* C25: splitTextToLines returns no empty line and no segment of empty text,
\* whatever the segments are: segments of empty text, segments of spaces
\* only, or no segment at all; and when no segment holds a word (in
\* particular for an empty segment list) it returns zero lines.
C25_NoEmptyLine ==
    pc = "returned"
        => /\ \A k \in 1..Len(wrap.result) :
                  /\ Len(wrap.result[k]) > 0
                  /\ \A n \in 1..Len(wrap.result[k]) : wrap.result[k][n].text # <<>>
           /\ InputWords = <<>> => wrap.result = <<>>

\* a call whose segment list holds a segment of empty text and words has
\* returned its lines
C25_Witness ==
    /\ pc = "returned"
    /\ FromSegments
    /\ \E k \in 1..Len(segments) : segments[k].text = <<>>
    /\ Len(wrap.result) = 2


----------------------------------------------------------------------------
(* Properties of parsePDFMarkdown (Spec): edges of the drawn lines *)

\* the width of the text of a draw call in the font it was issued in
DrawWidth(dr) ==
    getTextWidth([doc EXCEPT !.fontStyle = dr.fontStyle, !.fontSize = dr.fontSize],
                 dr.text)

\* the font size splitTextToLines measures the block at hand in
WrapFontSize ==
    IF block.kind = "heading"
    THEN (options.fontSize * (25 - block.level * 3)) \div 10
    ELSE options.fontSize

\* no single character of the block at hand is wider than the width
\* available to its lines
CharsFit ==
    \A k \in 1..Len(segments) : \A n \in 1..Len(segments[k].text) :
        getTextWidth(applyStyle([doc EXCEPT !.fontSize = WrapFontSize],
                                segments[k].style, WrapFontSize),
                     <<segments[k].text[n]>>) <= wrap.availableWidth

\* a line of the block at hand is about to be drawn, not justified
AlignedLineDue == Rendering /\ ~(currentY > maxY) /\ options.align # "justify"

\* C26 (as claimed): with align left, center or right, every segment of every
\* drawn line (paragraph, heading, list item) ends, measured in the font it
\* is drawn in, at or before x + options.maxWidth, provided no single
\* character is wider than the available width.
C26_RightEdge ==
    [][AlignedLineDue /\ CharsFit
          => \A n \in 1..Len(NewDraws) :
                 RLeq(RAdd(NewDraws[n].x, RInt(DrawWidth(NewDraws[n]))),
                      RInt(call.x + options.maxWidth))]_vars


\* C27: every doc.text call of parsePDFMarkdown, for a segment or for a list
\* marker, in every alignment, has a y coordinate of at most pageHeight - 20.
C27_DrawsOnPage ==
    \A n \in 1..Len(draws) : draws[n].y <= maxY

\* C27 witness: a list item whose marker and first line were drawn and whose
\* next line, with the cursor below pageHeight - 20, was not
C27_Witness ==
    /\ pc = "done"
    /\ currentY > maxY
    /\ block.kind \in ListKinds
    /\ Len(block.lines) >= 2
    /\ LineDrawn(block.src, 0)
    /\ LineDrawn(block.src, 1)
    /\ ~LineDrawn(block.src, 2)


RSub(a, b) == RAdd(a, [n |-> 0 - b.n, d |-> b.d])

\* the space added to the gap drawn by the n-th call of ds, beyond the width
\* of its space
ExtraOfGap(ds, n) == RSub(RSub(ds[n + 1].x, ds[n].x), RInt(DrawWidth(ds[n])))

\* the calls of ds that draw a gap between two words
Gaps(ds) == {n \in 1..(Len(ds) - 1) : ds[n].text = <<Sp>>}

\* a line of at least two words that is not the last of its block is about
\* to be drawn justified
SpreadLineDue ==
    /\ JustifyLineDue
    /\ block.lineIndex < Len(block.lines)
    /\ WordCount(block.lines[block.lineIndex]) >= 2

\* C28 (as claimed): with align = justify, after a line of at least two words
\* that is not the last of its block the pen is at x + maxWidth, and every
\* gap of the line is widened by the same amount, which is not negative.
C28_FlushRight ==
    [][SpreadLineDue
          => /\ block'.penX = RInt(call.x + options.maxWidth)
             /\ \A g, h \in Gaps(NewDraws) :
                    /\ ExtraOfGap(NewDraws, g) = ExtraOfGap(NewDraws, h)
                    /\ RLeq(RInt(0), ExtraOfGap(NewDraws, g))]_vars


----------------------------------------------------------------------------
(* Properties of parsePDFMarkdown (Spec): the font the call leaves behind *)

\* the active font is the normal style at the base size
BaseFont(fontStyle, fontSize) == fontStyle = "normal" /\ fontSize = options.fontSize

\* C29 (as claimed): when a call on a non-empty text returns, by whatever
\* path, the document's active font style is normal and its font size is
\* options.fontSize; and every list marker is drawn in the normal style at
\* the base size.
C29_FontRestored ==
    /\ pc = "done" /\ call.text # <<>> => BaseFont(doc.fontStyle, doc.fontSize)
    /\ \A n \in 1..Len(draws) :
           draws[n].line = 0 => BaseFont(draws[n].fontStyle, draws[n].fontSize)


----------------------------------------------------------------------------
(* Properties of generatePdf (SpecBuildFair): the isGenerating flag *)

\* C30: whenever isGenerating is true the build eventually finishes with
\* isGenerating false: after a successful download, after any thrown error,
\* and after a chapter image or a cover image failed to load.
C30_FlagCleared ==
    build.isGenerating ~> (build.pc = "finished" /\ ~build.isGenerating)

\* C30 witness: a build that was aborted by an image that failed to load has
\* finished, the error is set and isGenerating is false again
C30_Witness ==
    /\ build.pc = "finished"
    /\ build.cause = "image"
    /\ build.error
    /\ ~build.isGenerating
    /\ build.events # <<>>

====
